---- MODULE Spec2Model ----
(***************************************************************************)
(* A model of adaseq.models.sequence_labeling_model.SequenceLabelingModel: *)
(* the constructed model object, train()/eval(), forward and the helpers   *)
(* forward is built from (_forward, _calculate_loss, _calculate_cl_loss,   *)
(* decode).                                                                *)
(*                                                                         *)
(* Tensors are nested sequences: a [batch, seq] tensor is a sequence of    *)
(* rows, a [batch, seq, labels] tensor a sequence of rows of label         *)
(* vectors.  Real numbers are exact rationals <<n, d>> with d > 0 in       *)
(* lowest terms.  Logits are measured in units of ln 2, so exp is Exp2     *)
(* and log is Log2; the logits the model draws are those on which softmax  *)
(* and log are exact (every probability a power of two).                   *)
(*                                                                         *)
(* The values returned by the decoders of adaseq.modules.decoders and by   *)
(* nn.CrossEntropyLoss are kept uninterpreted: a loss is a formal linear   *)
(* combination of such values (atoms) with rational coefficients.          *)
(***************************************************************************)
EXTENDS Integers, Sequences, FiniteSets, TLC

\* ------------------------------------------------------------ bounds
\* Largest batch size of a call.
MaxBatch == 2
\* Padded sequence length of every call.
SeqLen == 2
\* Number of example sentences a batch is assembled from.
NumExamples == 3

\* adaseq.data.constant.PAD_LABEL_ID
PAD_LABEL_ID == -100

\* Python's None and a supplied optional argument.
None == <<>>
Some(x) == <<x>>
Val(o) == o[1]

\* ------------------------------------------------------------ rationals
Abs(x) == IF x < 0 THEN -x ELSE x

RECURSIVE GCD(_, _)
GCD(a, b) == IF b = 0 THEN a ELSE GCD(b, a % b)

Rat(n, d) == LET g == GCD(Abs(n), d) IN <<n \div g, d \div g>>
RInt(n) == <<n, 1>>
Zero == RInt(0)
One == RInt(1)
RAdd(a, b) == Rat(a[1] * b[2] + b[1] * a[2], a[2] * b[2])
RNeg(a) == <<-a[1], a[2]>>
RSub(a, b) == RAdd(a, RNeg(b))
RMul(a, b) == Rat(a[1] * b[1], a[2] * b[2])
RDiv(a, b) ==
    IF b[1] > 0 THEN Rat(a[1] * b[2], a[2] * b[1])
    ELSE Rat(-(a[1] * b[2]), a[2] * (-b[1]))

RECURSIVE Pow2(_)
Pow2(n) == IF n = 0 THEN 1 ELSE 2 * Pow2(n - 1)

\* exp, in units of ln 2, of an integer-valued rational.
Exp2(r) == IF r[1] >= 0 THEN <<Pow2(r[1]), 1>> ELSE <<1, Pow2(-r[1])>>

RECURSIVE ILog2(_)
ILog2(n) == IF n = 1 THEN 0 ELSE 1 + ILog2(n \div 2)

\* log, in units of ln 2, of a power of two.
Log2(r) == IF r[2] = 1 THEN RInt(ILog2(r[1])) ELSE RInt(-ILog2(r[2]))

\* ------------------------------------------------------------ tensors
\* A sequence built elementwise, materialised once (a torch.Tensor holds its
\* values; it is not recomputed when read).
Eager(s) == s \o <<>>

RECURSIVE RSumSeq(_)
RSumSeq(s) == IF s = <<>> THEN Zero ELSE RAdd(Head(s), RSumSeq(Tail(s)))

RECURSIVE MaxSeq(_)
MaxSeq(s) == IF Len(s) = 1 THEN s[1]
             ELSE LET m == MaxSeq(Tail(s)) IN IF s[1] >= m THEN s[1] ELSE m

\* Tensor.sum() of a [batch, seq, labels] tensor of rationals.
TensorSum(t) ==
    RSumSeq(Eager([b \in 1..Len(t) |->
        RSumSeq(Eager([i \in 1..Len(t[b]) |-> RSumSeq(t[b][i])]))]))

\* x / T for a tensor of integers.
DivT(t, T) ==
    Eager([b \in 1..Len(t) |-> Eager([i \in 1..Len(t[b]) |->
        Eager([k \in 1..Len(t[b][i]) |-> Rat(t[b][i][k], T)])])])

\* torch.softmax(dim=-1) of one label vector: exp(x - max) / sum exp(x - max).
SoftmaxRow(x) ==
    LET m == MaxSeq(Eager([k \in 1..Len(x) |-> x[k][1]]))
        e == Eager([k \in 1..Len(x) |-> Exp2(RSub(x[k], RInt(m)))])
        Z == RSumSeq(e)
    IN Eager([k \in 1..Len(x) |-> RDiv(e[k], Z)])

\* torch.log_softmax(dim=-1) of one label vector: x - max - log sum exp(x - max).
LogSoftmaxRow(x) ==
    LET m == MaxSeq(Eager([k \in 1..Len(x) |-> x[k][1]]))
        e == Eager([k \in 1..Len(x) |-> Exp2(RSub(x[k], RInt(m)))])
        lse == RAdd(RInt(m), Log2(RSumSeq(e)))
    IN Eager([k \in 1..Len(x) |-> RSub(x[k], lse)])

softmax(t) == Eager([b \in 1..Len(t) |-> Eager([i \in 1..Len(t[b]) |-> SoftmaxRow(t[b][i])])])
log_softmax(t) == Eager([b \in 1..Len(t) |-> Eager([i \in 1..Len(t[b]) |-> LogSoftmaxRow(t[b][i])])])

\* F.kl_div(input, target, reduction='none'): target * (log target - input),
\* and 0 where target is 0.
kl_div(input, target) ==
    Eager([b \in 1..Len(target) |-> Eager([i \in 1..Len(target[b]) |->
        Eager([k \in 1..Len(target[b][i]) |->
            IF target[b][i][k] = Zero THEN Zero
            ELSE RMul(target[b][i][k],
                      RSub(Log2(target[b][i][k]), input[b][i][k]))])])])

\* A faulty MaskScale that leaves the mask out: t * T * T.
MaskScaleNoMask(t, mask, T) ==
    Eager([b \in 1..Len(t) |-> Eager([i \in 1..Len(t[b]) |->
        Eager([k \in 1..Len(t[b][i]) |->
            RMul(RMul(t[b][i][k], RInt(T)), RInt(T))])])])

\* t * mask.unsqueeze(-1) * T * T
MaskScale(t, mask, T) ==
    Eager([b \in 1..Len(t) |-> Eager([i \in 1..Len(t[b]) |->
        Eager([k \in 1..Len(t[b][i]) |->
            RMul(RMul(RMul(t[b][i][k], RInt(mask[b][i])), RInt(T)), RInt(T))])])])

\* A faulty MulMask that hands the targets on unmasked.
MulMaskIdentity(targets, mask) == targets

\* targets * mask, elementwise on [batch, seq] tensors.
MulMask(targets, mask) ==
    Eager([b \in 1..Len(targets) |-> Eager([i \in 1..Len(targets[b]) |->
        targets[b][i] * mask[b][i]])])

\* The first index (0-based) of a maximal element: Tensor.argmax(-1).
ArgmaxRow(x) ==
    (CHOOSE k \in 1..Len(x) :
        /\ x[k] = MaxSeq(x)
        /\ \A j \in 1..(k - 1) : x[j] # MaxSeq(x)) - 1

\* logits.transpose(1, 2): [batch, seq, labels] -> [batch, labels, seq].
Transpose12(t) ==
    Eager([b \in 1..Len(t) |-> Eager([k \in 1..Len(t[b][1]) |->
        Eager([i \in 1..Len(t[b]) |-> t[b][i][k]])])])

\* ------------------------------------------------------------ losses
\* A loss is a formal linear combination of atoms with rational coefficients:
\* a function from the atoms with a non-zero coefficient to that coefficient.
\* The atom <<"one">> carries the plain number.
OneAtom == <<"one">>
Coef(l, a) == IF a \in DOMAIN l THEN l[a] ELSE Zero
LNorm(D, f) == [a \in {x \in D : f[x] # Zero} |-> f[a]] @@ <<>>
LConst(r) == LNorm({OneAtom}, [a \in {OneAtom} |-> r])
LAtom(a) == [x \in {a} |-> One]
LAdd(l1, l2) ==
    LET D == DOMAIN l1 \cup DOMAIN l2
    IN LNorm(D, [a \in D |-> RAdd(Coef(l1, a), Coef(l2, a))])
LScale(r, l) == LNorm(DOMAIN l, [a \in DOMAIN l |-> RMul(r, l[a])])
LNeg(l) == LScale(RNeg(One), l)

\* ------------------------------------------------------------ collaborators
\* The label inventory of the task: id_to_label, a Dict[int, str].
id_to_label == [i \in 0..3 |-> <<"O", "B-ENT", "I-ENT", "E-ENT">>[i + 1]]

\* The columns of the projection's weight, one per hidden unit, at temperature
\* 1: the logits of a token whose embedding is that unit vector.
BaseColumns == << <<2, 1, 0, 0>>, <<1, 0, 2, 0>>, <<0, 0, 1, 2>> >>

\* encoder.config.hidden_size
hidden_size == Len(BaseColumns)

\* Encoder.__call__: a [batch, seq, hidden] tensor of token embeddings, the
\* embedding of token id t being the unit vector t.
encoder(tokens) ==
    Eager([b \in 1..Len(tokens.input_ids) |-> Eager([i \in 1..Len(tokens.input_ids[b]) |->
        Eager([h \in 1..hidden_size |-> IF tokens.input_ids[b][i] = h THEN 1 ELSE 0])])])

\* The weight and bias nn.Linear(hidden_size, num_labels) holds, scaled so that
\* logits / temperature are exact.
LinearParams(num_labels, scale) ==
    [weight |-> Eager([k \in 1..num_labels |-> Eager([h \in 1..hidden_size |->
                    scale * BaseColumns[h][k]])]),
     bias |-> Eager([k \in 1..num_labels |-> 0])]

RECURSIVE Dot(_, _)
Dot(w, x) == IF w = <<>> THEN 0 ELSE w[1] * x[1] + Dot(Tail(w), Tail(x))

\* nn.Linear.forward: x W^T + b on the last dimension.
Linear(lin, x) ==
    Eager([b \in 1..Len(x) |-> Eager([i \in 1..Len(x[b]) |->
        Eager([k \in 1..Len(lin.weight) |-> Dot(lin.weight[k], x[b][i]) + lin.bias[k]])])])

\* The outcomes of WordDropout's Bernoulli draw: seed 0 keeps every token,
\* seed 1 drops the tokens at positions where batch + position is even.
DropSeeds == {0, 1}
Dropped(seed, b, i) == seed = 1 /\ (b + i) % 2 = 0

\* WordDropout.forward: in training, whole token embeddings are zeroed; in
\* evaluation the input is returned.
WordDropout(training, seed, x) ==
    IF ~training THEN x
    ELSE Eager([b \in 1..Len(x) |-> Eager([i \in 1..Len(x[b]) |->
            IF Dropped(seed, b, i) THEN Eager([h \in 1..Len(x[b][i]) |-> 0])
            ELSE x[b][i]])])

\* get_tokens_mask(tokens, length): the tokens' mask, cut to length columns.
get_tokens_mask(tokens, length) ==
    Eager([b \in 1..Len(tokens.mask) |-> SubSeq(tokens.mask[b], 1, length)])

\* CRF.forward / PartialCRF.forward(logits, targets, reduction, mask): the
\* log-likelihood, uninterpreted.
crf_forward(kind, logits, targets, reduction, mask) ==
    LAtom(<<"crf", kind, logits, targets, reduction, mask>>)

\* nn.CrossEntropyLoss.forward(input, target), uninterpreted; a target of
\* None is a TypeError.
loss_fn_forward(fn, input, target) ==
    IF target = None THEN [raised |-> "TypeError", value |-> None]
    ELSE [raised |-> "none",
          value |-> LAtom(<<"cross_entropy", fn, input, Val(target)>>)]

\* CRF.decode(logits, mask): a tensor with a leading n-best dimension of 1,
\* uninterpreted.
crf_decode(kind, logits, mask) ==
    << [op |-> "crf.decode", kind |-> kind, logits |-> logits, mask |-> mask] >>

\* Tensor.squeeze(0): a leading dimension of size 1 is removed.
Squeeze0(t) == IF Len(t) = 1 THEN t[1] ELSE t

\* CRF.compute_posterior(logits, mask): per-position log-marginals, here those
\* of a CRF whose transition scores are 0, up to the per-position normaliser.
compute_posterior(kind, logits, mask) ==
    Eager([b \in 1..Len(logits) |-> Eager([i \in 1..Len(logits[b]) |->
        Eager([k \in 1..Len(logits[b][i]) |-> logits[b][i][k] - MaxSeq(logits[b][i])])])])

\* Tensor.detach(): the same data, cut from the autograd graph.
detach(t) == [t EXCEPT !.requires_grad = FALSE]

\* ------------------------------------------------------------ the model
\* A faulty MakeCrf with the two CRF classes exchanged.
MakeCrfSwapped(use_crf, partial) ==
    IF use_crf
    THEN (IF partial THEN Some("CRF") ELSE Some("PartialCRF"))
    ELSE None

\* The decoder __init__ constructs: self.crf, or no such attribute.
MakeCrf(use_crf, partial) ==
    IF use_crf
    THEN (IF partial THEN Some("PartialCRF") ELSE Some("CRF"))
    ELSE None

\* self.loss_fn, constructed only without a CRF.
MakeLossFn(use_crf) ==
    IF use_crf THEN None
    ELSE Some([reduction |-> "mean", ignore_index |-> PAD_LABEL_ID])

\* self.use_dropout
UseDropout(word_dropout) == word_dropout[1] > 0

\* SequenceLabelingModel.__init__; weight_scale fixes the parameter values
\* nn.Linear holds.  nn.Module starts in training mode.
SequenceLabelingModel(ids, word_dropout, use_crf, multiview, temperature, mv_loss_type, mv_interpolation, partial, weight_scale) ==
    LET num_labels == Cardinality(DOMAIN ids)
        use_dropout == UseDropout(word_dropout)
    IN [id_to_label |-> ids,
        num_labels |-> num_labels,
        linear |-> LinearParams(num_labels, weight_scale),
        use_dropout |-> use_dropout,
        dropout |-> IF use_dropout THEN Some(word_dropout) ELSE None,
        use_crf |-> use_crf,
        crf |-> MakeCrf(use_crf, partial),
        loss_fn |-> MakeLossFn(use_crf),
        multiview |-> multiview,
        mv_loss_type |-> mv_loss_type,
        temperature |-> temperature,
        mv_interpolation |-> mv_interpolation,
        training |-> TRUE]

\* The default values of __init__'s keyword arguments.
DefaultArgs ==
    [word_dropout |-> Zero, use_crf |-> TRUE, multiview |-> FALSE,
     temperature |-> 1, mv_loss_type |-> "kl", mv_interpolation |-> Rat(1, 2),
     partial |-> FALSE]

Event(op, args) == [op |-> op, args |-> args]

\* A faulty _forward that projects first and applies word dropout to the logits.
_forwardDropoutOnLogits(model, tokens, seed) ==
    LET embed == encoder(tokens)
        logits0 == Linear(model.linear, embed)
        logits == IF model.use_dropout
                  THEN WordDropout(model.training, seed, logits0)
                  ELSE logits0
    IN [logits |-> logits,
        trace |-> <<Event("encoder", <<tokens, embed>>),
                    Event("linear", <<embed, logits0>>)>>
                  \o (IF model.use_dropout
                      THEN <<Event("dropout", <<logits0, logits>>)>>
                      ELSE <<>>)]

\* SequenceLabelingModel._forward
_forward(model, tokens, seed) ==
    LET embed0 == encoder(tokens)
        embed == IF model.use_dropout
                 THEN WordDropout(model.training, seed, embed0)
                 ELSE embed0
        logits == Linear(model.linear, embed)
    IN [logits |-> logits,
        trace |-> <<Event("encoder", <<tokens, embed0>>)>>
                  \o (IF model.use_dropout
                      THEN <<Event("dropout", <<embed0, embed>>)>>
                      ELSE <<>>)
                  \o <<Event("linear", <<embed, logits>>)>>]

\* SequenceLabelingModel._calculate_loss; targets is None or Some(tensor).
_calculate_loss(model, logits, targets, mask) ==
    LET entry == <<Event("_calculate_loss", <<logits, targets, mask>>)>>
    IN
    IF model.use_crf
    THEN IF targets = None
         THEN [raised |-> "TypeError", value |-> None, trace |-> entry]
         ELSE LET t == MulMask(Val(targets), mask)
              IN [raised |-> "none",
                  value |-> LNeg(crf_forward(Val(model.crf), logits, t, "mean", mask)),
                  trace |-> entry
                            \o <<Event("crf", <<Val(model.crf), logits, t, "mean", mask>>)>>]
    ELSE LET r == loss_fn_forward(Val(model.loss_fn), Transpose12(logits), targets)
         IN [raised |-> r.raised,
             value |-> r.value,
             trace |-> entry
                       \o <<Event("loss_fn",
                                  <<Val(model.loss_fn), Transpose12(logits), targets>>)>>]

\* The masked, temperature-scaled KL term of _calculate_cl_loss: input is the
\* origin view, target the (detached) other view.
KlTerm(origin, ext, mask, T) ==
    MaskScale(kl_div(log_softmax(DivT(origin, T)), softmax(DivT(ext, T))), mask, T)

\* loss = _loss.sum() / batch_size
BatchMean(_loss, batch_size) == LConst(RDiv(TensorSum(_loss), RInt(batch_size)))

\* A faulty RaiseNotImplemented that falls back to a loss of 0.0.
ReturnZeroLoss(grad, trace) ==
    [raised |-> "none", value |-> LConst(Zero), grad |-> grad, trace |-> trace]

\* raise NotImplementedError
RaiseNotImplemented(grad, trace) ==
    [raised |-> "NotImplementedError", value |-> None, grad |-> grad, trace |-> trace]

\* SequenceLabelingModel._calculate_cl_loss; the logits are tensors
\* [data, requires_grad].
_calculate_cl_loss(model, ext_view_logits, origin_view_logits, mask, T) ==
    LET entry == <<Event("_calculate_cl_loss",
                         <<ext_view_logits.data, origin_view_logits.data, mask, T>>)>>
    IN
    IF model.multiview
    THEN LET batch_size == Len(ext_view_logits.data)
             ext == detach(ext_view_logits)
             grad == [ext |-> ext.requires_grad,
                      origin |-> origin_view_logits.requires_grad]
         IN IF model.mv_loss_type = "kl"
            THEN LET _loss == KlTerm(origin_view_logits.data, ext.data, mask, T)
                 IN [raised |-> "none",
                     value |-> BatchMean(_loss, batch_size),
                     grad |-> grad, trace |-> entry]
            ELSE IF model.mv_loss_type = "crf_kl"
            THEN IF model.use_crf
                 THEN LET origin_view_log_posterior ==
                              compute_posterior(Val(model.crf), origin_view_logits.data, mask)
                          ext_view_log_posterior ==
                              compute_posterior(Val(model.crf), ext.data, mask)
                          _loss == KlTerm(origin_view_log_posterior,
                                          ext_view_log_posterior, mask, T)
                      IN [raised |-> "none",
                          value |-> BatchMean(_loss, batch_size),
                          grad |-> grad,
                          trace |-> entry
                                    \o <<Event("crf.compute_posterior",
                                              <<Val(model.crf), origin_view_logits.data, mask>>),
                                        Event("crf.compute_posterior",
                                              <<Val(model.crf), ext.data, mask>>)>>]
                 ELSE RaiseNotImplemented(grad, entry)
            ELSE RaiseNotImplemented(grad, entry)
    ELSE [raised |-> "none", value |-> LConst(Zero),
          grad |-> [ext |-> ext_view_logits.requires_grad,
                    origin |-> origin_view_logits.requires_grad],
          trace |-> entry]

\* A faulty decode whose argmax path zeroes the predictions at masked positions.
decodeMasked(model, logits, mask) ==
    IF model.use_crf
    THEN [predicts |-> Squeeze0(crf_decode(Val(model.crf), logits, mask)),
          trace |-> <<Event("decode", <<logits, mask>>),
                      Event("crf.decode", <<Val(model.crf), logits, mask>>)>>]
    ELSE [predicts |-> Eager([b \in 1..Len(logits) |-> Eager([i \in 1..Len(logits[b]) |->
                            ArgmaxRow(logits[b][i]) * mask[b][i]])]),
          trace |-> <<Event("decode", <<logits, mask>>)>>]

\* SequenceLabelingModel.decode
decode(model, logits, mask) ==
    IF model.use_crf
    THEN [predicts |-> Squeeze0(crf_decode(Val(model.crf), logits, mask)),
          trace |-> <<Event("decode", <<logits, mask>>),
                      Event("crf.decode", <<Val(model.crf), logits, mask>>)>>]
    ELSE [predicts |-> Eager([b \in 1..Len(logits) |-> Eager([i \in 1..Len(logits[b]) |->
                            ArgmaxRow(logits[b][i])])]),
          trace |-> <<Event("decode", <<logits, mask>>)>>]

Tensor(data) == [data |-> data, requires_grad |-> TRUE]

Raise(error, trace) == [raised |-> error, value |-> None, trace |-> trace]
Return(value, trace) == [raised |-> "none", value |-> value, trace |-> trace]

\* A faulty CrfMask that ignores a supplied origin_mask.
CrfMaskTokensOnly(origin_mask, mask) == mask

\* A faulty BlendedLoss that leaves the origin view's primary loss out.
BlendedLossNoOrigin(mv_interpolation, loss, origin_view_loss, cl_kl_loss) ==
    LAdd(LScale(mv_interpolation, loss),
         LScale(RSub(One, mv_interpolation), cl_kl_loss))

\* A faulty InferenceOutputs that also reports a loss.
InferenceOutputsWithLoss(logits, predicts) ==
    [logits |-> logits, predicts |-> predicts, loss |-> LConst(Zero)]

\* crf_mask = origin_mask if origin_mask is not None else mask
CrfMask(origin_mask, mask) == IF origin_mask # None THEN Val(origin_mask) ELSE mask

\* mv_interpolation * (loss + origin_view_loss) + (1 - mv_interpolation) * cl_kl_loss
BlendedLoss(mv_interpolation, loss, origin_view_loss, cl_kl_loss) ==
    LAdd(LScale(mv_interpolation, LAdd(loss, origin_view_loss)),
         LScale(RSub(One, mv_interpolation), cl_kl_loss))

\* outputs = {'logits': logits, 'loss': loss}
TrainingOutputs(logits, loss) == [logits |-> logits, loss |-> loss]

\* outputs = {'logits': logits, 'predicts': predicts}
InferenceOutputs(logits, predicts) == [logits |-> logits, predicts |-> predicts]

\* SequenceLabelingModel.forward; label_ids, origin_tokens and origin_mask are
\* None or Some(value), seeds the dropout draws of the two views.
forward(model, tokens, label_ids, origin_tokens, origin_mask, seeds) ==
    LET f == _forward(model, tokens, seeds[1])
        logits == f.logits
        mask == get_tokens_mask(tokens, Len(logits[1]))
    IN
    IF model.training
    THEN
      LET crf_mask == CrfMask(origin_mask, mask)
          l == _calculate_loss(model, logits, label_ids, crf_mask)
          t1 == f.trace \o l.trace
      IN
      IF l.raised # "none" THEN Raise(l.raised, t1)
      ELSE IF model.multiview /\ origin_tokens # None
      THEN
        LET g == _forward(model, Val(origin_tokens), seeds[2])
            origin_view_logits == g.logits
            origin_mask2 == get_tokens_mask(Val(origin_tokens),
                                            Len(origin_view_logits[1]))
            lo == _calculate_loss(model, origin_view_logits, label_ids, origin_mask2)
            t2 == t1 \o g.trace \o lo.trace
            cl == _calculate_cl_loss(model, Tensor(logits),
                                     Tensor(origin_view_logits), mask,
                                     model.temperature)
            t3 == t2 \o cl.trace
        IN
        IF lo.raised # "none" THEN Raise(lo.raised, t2)
        ELSE IF model.mv_loss_type = "kl"
        THEN IF cl.raised # "none" THEN Raise(cl.raised, t3)
             ELSE Return(TrainingOutputs(logits,
                             BlendedLoss(model.mv_interpolation, l.value,
                                         lo.value, cl.value)),
                         t3)
        ELSE IF model.mv_loss_type = "crf_kl"
        THEN IF cl.raised # "none" THEN Raise(cl.raised, t3)
             ELSE Return(TrainingOutputs(logits,
                             BlendedLoss(model.mv_interpolation, l.value,
                                         lo.value, cl.value)),
                         t3)
        ELSE Return(TrainingOutputs(logits, l.value), t2)
      ELSE Return(TrainingOutputs(logits, l.value), t1)
    ELSE
      LET d == decode(model, logits, mask)
      IN Return(InferenceOutputs(logits, d.predicts),
                f.trace \o d.trace)

\* ------------------------------------------------------------ inputs
\* The example sentences: each has an augmented view (tokens), an original
\* view (origin_tokens), a length in each view and gold labels.
ExampleIds == 1..NumExamples
ViewTok(x, i) == 1 + ((x + i) % hidden_size)
OrigTok(x, i) == IF i = 1 THEN ViewTok(x, i) ELSE 1 + ((x + i + 1) % hidden_size)
ViewLen(x) == 1 + (x % SeqLen)
OrigLen(x) == 1 + ((x + 1) % SeqLen)
Label(x, i) == IF i <= ViewLen(x) THEN (x + i) % Cardinality(DOMAIN id_to_label)
               ELSE PAD_LABEL_ID

\* A batch: up to MaxBatch distinct examples, in dataset order.
Batches ==
    {batch \in UNION {[1..n -> ExampleIds] : n \in 1..MaxBatch} :
        \A i \in 1..(Len(batch) - 1) : batch[i] < batch[i + 1]}

TokensView(batch) ==
    [input_ids |-> Eager([b \in 1..Len(batch) |-> Eager([i \in 1..SeqLen |-> ViewTok(batch[b], i)])]),
     mask |-> Eager([b \in 1..Len(batch) |-> Eager([i \in 1..SeqLen |->
                  IF i <= ViewLen(batch[b]) THEN 1 ELSE 0])])]
OriginView(batch) ==
    [input_ids |-> Eager([b \in 1..Len(batch) |-> Eager([i \in 1..SeqLen |-> OrigTok(batch[b], i)])]),
     mask |-> Eager([b \in 1..Len(batch) |-> Eager([i \in 1..SeqLen |->
                  IF i <= OrigLen(batch[b]) THEN 1 ELSE 0])])]
LabelIds(batch) ==
    Eager([b \in 1..Len(batch) |-> Eager([i \in 1..SeqLen |-> Label(batch[b], i)])])
OnesMask(batch) == Eager([b \in 1..Len(batch) |-> Eager([i \in 1..SeqLen |-> 1])])

Temperatures == {1, 2}
Interpolations == {Zero, Rat(1, 2), One}
LossTypes == {"kl", "crf_kl", "mse"}
DropoutRates == {Zero, Rat(1, 2)}

\* The keyword arguments the model is constructed with.
CtorArgs ==
    {DefaultArgs}
    \cup [word_dropout : DropoutRates, use_crf : BOOLEAN, multiview : {FALSE},
          temperature : {DefaultArgs.temperature},
          mv_loss_type : {DefaultArgs.mv_loss_type},
          mv_interpolation : {DefaultArgs.mv_interpolation}, partial : BOOLEAN]
    \cup [word_dropout : DropoutRates, use_crf : BOOLEAN, multiview : {TRUE},
          temperature : Temperatures, mv_loss_type : LossTypes,
          mv_interpolation : Interpolations, partial : BOOLEAN]

Construct(a) ==
    SequenceLabelingModel(id_to_label, a.word_dropout, a.use_crf, a.multiview,
                          a.temperature, a.mv_loss_type, a.mv_interpolation,
                          a.partial, a.temperature)

\* ------------------------------------------------------------ state
\* kwargs: the arguments the model was constructed with; self: the model
\* object; call: the last call made on it; result: what that call returned or
\* raised, with the calls it made on the way.
VARIABLES kwargs, self, call, result

vars == <<kwargs, self, call, result>>

Init ==
    /\ \E a \in CtorArgs :
        /\ kwargs = a
        /\ self = Construct(a)
        /\ call = [op |-> "__init__", args |-> None]
    /\ result = Return(None, <<>>)

\* The caller holds no unreturned call: it has constructed the model, or has
\* taken the result of its last call.
Idle == call.op \in {"__init__", "idle"}

\* The caller takes the result of its last call.
TakeResult ==
    /\ ~Idle
    /\ call' = [op |-> "idle", args |-> None]
    /\ result' = Return(None, <<>>)
    /\ UNCHANGED <<kwargs, self>>

\* nn.Module.train()
Train ==
    /\ Idle
    /\ self' = [self EXCEPT !.training = TRUE]
    /\ call' = [op |-> "train", args |-> None]
    /\ result' = Return(None, <<>>)
    /\ UNCHANGED kwargs

\* nn.Module.eval()
Eval ==
    /\ Idle
    /\ self' = [self EXCEPT !.training = FALSE]
    /\ call' = [op |-> "eval", args |-> None]
    /\ result' = Return(None, <<>>)
    /\ UNCHANGED kwargs

SeedsOf(model) ==
    IF model.use_dropout /\ model.training THEN DropSeeds \X DropSeeds
    ELSE {<<0, 0>>}

\* model(tokens=..., label_ids=..., origin_tokens=..., origin_mask=...)
Forward ==
    \E batch \in Batches :
    \E label_ids \in {None, Some(LabelIds(batch))},
       origin_tokens \in {None, Some(OriginView(batch))},
       origin_mask \in {None, Some(OnesMask(batch))},
       seeds \in SeedsOf(self) :
        /\ Idle
        /\ call' = [op |-> "forward",
                    args |-> [tokens |-> TokensView(batch),
                              label_ids |-> label_ids,
                              origin_tokens |-> origin_tokens,
                              origin_mask |-> origin_mask,
                              seeds |-> seeds]]
        /\ result' = forward(self, TokensView(batch), label_ids, origin_tokens,
                             origin_mask, seeds)
        /\ UNCHANGED <<kwargs, self>>

\* model._calculate_cl_loss(ext_view_logits, origin_view_logits, mask, T=...)
CalculateClLoss ==
    \E batch \in Batches, T \in Temperatures :
    \E mask \in {TokensView(batch).mask, OnesMask(batch)} :
        LET lin == LinearParams(self.num_labels, T)
            ext == Tensor(Linear(lin, encoder(TokensView(batch))))
            origin == Tensor(Linear(lin, encoder(OriginView(batch))))
        IN
        /\ Idle
        /\ call' = [op |-> "_calculate_cl_loss",
                    args |-> [ext_view_logits |-> ext,
                              origin_view_logits |-> origin,
                              mask |-> mask, T |-> T]]
        /\ result' = _calculate_cl_loss(self, ext, origin, mask, T)
        /\ UNCHANGED <<kwargs, self>>

Next == Train \/ Eval \/ Forward \/ CalculateClLoss \/ TakeResult

Spec == Init /\ [][Next]_vars

\* ------------------------------------------------------------ claims
ForwardCall == call.op = "forward"
Returned == result.raised = "none"
IsLossEvent(e) == e.op = "_calculate_loss"
IsClEvent(e) == e.op = "_calculate_cl_loss"
IsCrfEvent(e) == e.op = "crf"
IsPosteriorEvent(e) == e.op = "crf.compute_posterior"
IsForwardStep(e) == e.op \in {"encoder", "dropout", "linear"}
LossEvents == SelectSeq(result.trace, IsLossEvent)
ClEvents == SelectSeq(result.trace, IsClEvent)
CrfEvents == SelectSeq(result.trace, IsCrfEvent)
PosteriorEvents == SelectSeq(result.trace, IsPosteriorEvent)
ForwardSteps == SelectSeq(result.trace, IsForwardStep)
HasEvent(op) == \E j \in 1..Len(result.trace) : result.trace[j].op = op

\* A training-mode forward call on a multiview model with origin_tokens supplied.
MultiviewTraining ==
    /\ ForwardCall
    /\ self.training
    /\ self.multiview
    /\ call.args.origin_tokens # None

\* The masks get_tokens_mask derives from the two views of the call.
TokensMask == get_tokens_mask(call.args.tokens, SeqLen)
OriginTokensMask == get_tokens_mask(Val(call.args.origin_tokens), SeqLen)
ZerosMask(n) == [b \in 1..n |-> [i \in 1..SeqLen |-> 0]]
AllOnesMask(n) == [b \in 1..n |-> [i \in 1..SeqLen |-> 1]]

\* C1: every forward call that returns has 'logits' in its output; the output
\* holds 'loss' and no 'predicts' exactly in training mode, and 'predicts' and
\* no 'loss' exactly outside it, whatever the configuration and whichever of
\* label_ids, origin_tokens and origin_mask are supplied.
C1_LossXorPredicts ==
    (ForwardCall /\ Returned) =>
        /\ "logits" \in DOMAIN result.value
        /\ self.training <=> ("loss" \in DOMAIN result.value)
        /\ self.training <=> ("predicts" \notin DOMAIN result.value)
        /\ DOMAIN result.value \subseteq {"logits", "loss", "predicts"}

C1_Witness ==
    /\ ForwardCall /\ Returned
    /\ ~self.training
    /\ self.multiview
    /\ call.args.label_ids # None
    /\ call.args.origin_tokens # None
    /\ DOMAIN result.value = {"logits", "predicts"}

\* The primary losses and the consistency loss of the call, from its inputs.
ViewLogits == _forward(self, call.args.tokens, call.args.seeds[1]).logits
OriginLogits == _forward(self, Val(call.args.origin_tokens), call.args.seeds[2]).logits
L_view ==
    _calculate_loss(self, ViewLogits, call.args.label_ids,
                    IF call.args.origin_mask = None THEN TokensMask
                    ELSE Val(call.args.origin_mask)).value
L_origin ==
    _calculate_loss(self, OriginLogits, call.args.label_ids, OriginTokensMask).value
L_cl ==
    _calculate_cl_loss(self, Tensor(ViewLogits), Tensor(OriginLogits), TokensMask,
                       self.temperature).value

\* C2: a training-mode multiview forward call with origin_tokens supplied and
\* mv_loss_type 'kl' or 'crf_kl' that returns has loss = a * (L_view + L_origin)
\* + (1 - a) * L_cl for a = mv_interpolation; a = 1 gives L_view + L_origin and
\* a = 0 gives L_cl alone.
C2_BlendedLoss ==
    (MultiviewTraining /\ Returned /\ self.mv_loss_type \in {"kl", "crf_kl"}) =>
        LET a == self.mv_interpolation
        IN /\ result.value.loss =
                LAdd(LAdd(LScale(a, L_view), LScale(a, L_origin)),
                     LScale(RSub(One, a), L_cl))
           /\ a = One => result.value.loss = LAdd(L_view, L_origin)
           /\ a = Zero => result.value.loss = L_cl

C2_Witness ==
    /\ MultiviewTraining /\ Returned
    /\ self.mv_loss_type = "crf_kl"
    /\ self.mv_interpolation = Rat(1, 2)
    /\ L_view # L_origin
    /\ L_cl # LConst(Zero)
    /\ Cardinality(DOMAIN result.value.loss) = 3

\* C3: whenever a training-mode forward call encodes the origin view and
\* computes its primary loss, it also computes the consistency loss and
\* returns the blend of the two, for every mv_loss_type.
C3_AlwaysBlended ==
    (ForwardCall /\ Returned /\ self.training /\ Len(LossEvents) = 2) =>
        /\ Len(ClEvents) = 1
        /\ result.value.loss =
               LAdd(LScale(self.mv_interpolation, LAdd(L_view, L_origin)),
                    LScale(RSub(One, self.mv_interpolation), L_cl))

\* The decoder the constructor's arguments ask for.
ExpectedCrf ==
    IF kwargs.use_crf
    THEN Some(IF kwargs.partial THEN "PartialCRF" ELSE "CRF")
    ELSE None

\* C4: the decoder is fixed by (use_crf, partial): exactly one of crf and
\* loss_fn is set, crf iff use_crf, a PartialCRF iff partial; the loss
\* otherwise is a mean cross-entropy ignoring PAD_LABEL_ID; every call made
\* later goes to that decoder; the defaults give a plain CRF, no word dropout
\* and no multiview.
C4_DecoderFixed ==
    /\ self.use_crf = kwargs.use_crf
    /\ self.crf = ExpectedCrf
    /\ (self.crf # None) <=> self.use_crf
    /\ (self.crf # None) <=> (self.loss_fn = None)
    /\ ~self.use_crf =>
           self.loss_fn = Some([reduction |-> "mean", ignore_index |-> PAD_LABEL_ID])
    /\ \A j \in 1..Len(result.trace) :
           LET e == result.trace[j]
           IN /\ e.op \in {"crf", "crf.decode", "crf.compute_posterior"} =>
                     (self.use_crf /\ e.args[1] = Val(ExpectedCrf))
              /\ e.op = "loss_fn" => (~self.use_crf /\ e.args[1] = Val(self.loss_fn))
    /\ (ForwardCall /\ Returned) =>
           IF self.training
           THEN (self.use_crf <=> HasEvent("crf")) /\ (~self.use_crf <=> HasEvent("loss_fn"))
           ELSE (self.use_crf <=> HasEvent("crf.decode")) /\ ~HasEvent("loss_fn")
    /\ kwargs = DefaultArgs =>
           /\ self.crf = Some("CRF")
           /\ ~self.use_dropout /\ self.dropout = None
           /\ ~self.multiview

C4_Witness ==
    /\ MultiviewTraining /\ Returned
    /\ self.crf = Some("PartialCRF")
    /\ self.mv_loss_type = "crf_kl"
    /\ Len(CrfEvents) = 2
    /\ Len(PosteriorEvents) = 2

\* The steps of one _forward: encoder, then word dropout on the encoder's
\* output if it is configured, then the projection of what came out.
ChunkLen == IF self.use_dropout THEN 3 ELSE 2
WellOrdered(c) ==
    IF self.use_dropout
    THEN /\ c[1].op = "encoder" /\ c[2].op = "dropout" /\ c[3].op = "linear"
         /\ c[2].args[1] = c[1].args[2]
         /\ c[3].args[1] = c[2].args[2]
         /\ c[3].args[2] = Linear(self.linear, c[2].args[2])
    ELSE /\ c[1].op = "encoder" /\ c[2].op = "linear"
         /\ c[2].args[1] = c[1].args[2]
         /\ c[2].args[2] = Linear(self.linear, c[1].args[2])

\* C5: in every forward call each encoded view goes encoder -> word dropout
\* -> linear projection; dropout acts on the encoder's embeddings, never on
\* the logits, and is applied iff the configured rate is > 0; with rate 0 the
\* encoder's output reaches the projection unchanged; in multiview training
\* this holds for the tokens view and for the origin view.
C5_ForwardOrder ==
    /\ self.use_dropout <=> (kwargs.word_dropout[1] > 0)
    /\ ForwardCall =>
        LET F == ForwardSteps
            n == Len(F) \div ChunkLen
        IN /\ Len(F) = n * ChunkLen
           /\ n >= 1
           /\ \A v \in 1..n :
                  WellOrdered(SubSeq(F, (v - 1) * ChunkLen + 1, v * ChunkLen))
           /\ F[1].args[1] = call.args.tokens
           /\ Returned => result.value.logits = F[ChunkLen].args[2]
           /\ (MultiviewTraining /\ call.args.label_ids # None) =>
                  /\ n = 2
                  /\ F[ChunkLen + 1].args[1] = Val(call.args.origin_tokens)
           /\ ~(MultiviewTraining /\ call.args.label_ids # None) => n = 1

C5_Witness ==
    /\ MultiviewTraining /\ Returned
    /\ self.use_dropout
    /\ call.args.seeds = <<1, 1>>
    /\ Len(ForwardSteps) = 6
    /\ ForwardSteps[2].args[1] # ForwardSteps[2].args[2]
    /\ ForwardSteps[5].args[1] # ForwardSteps[5].args[2]

RLeq(a, b) == a[1] * b[2] <= b[1] * a[2]

\* C6: without a CRF the inference prediction has one label per position of
\* the logits, at every position (masked or not) the index of a maximal logit,
\* which is also of maximal softmax probability, and does not depend on the
\* mask; with a CRF it is crf.decode(logits, mask) without its leading
\* dimension.
C6_Decode ==
    (ForwardCall /\ ~self.training /\ Returned) =>
        LET logits == result.value.logits
            predicts == result.value.predicts
            n == Len(logits)
        IN IF ~self.use_crf
           THEN /\ Len(predicts) = n
                /\ \A b \in 1..n :
                    /\ Len(predicts[b]) = Len(logits[b])
                    /\ \A i \in 1..Len(logits[b]) :
                        LET k == predicts[b][i]
                            p == SoftmaxRow([j \in 1..self.num_labels |->
                                                RInt(logits[b][i][j])])
                        IN /\ k \in 0..(self.num_labels - 1)
                           /\ \A j \in 1..self.num_labels :
                                /\ logits[b][i][j] <= logits[b][i][k + 1]
                                /\ RLeq(p[j], p[k + 1])
                /\ \A m \in {ZerosMask(n), AllOnesMask(n), TokensMask} :
                       decode(self, logits, m).predicts = predicts
           ELSE predicts = crf_decode(Val(self.crf), logits, TokensMask)[1]

C6_Witness ==
    /\ ForwardCall /\ ~self.training /\ Returned
    /\ ~self.use_crf
    /\ \E b \in 1..Len(TokensMask) : \E i \in 1..SeqLen :
           TokensMask[b][i] = 0 /\ result.value.predicts[b][i] # 0

\* The KL divergence of distribution p from distribution q, in units of ln 2.
KLRow(p, q) ==
    RSumSeq([k \in 1..Len(p) |->
        IF p[k] = Zero THEN Zero
        ELSE RMul(p[k], RSub(Log2(p[k]), Log2(q[k])))])

RECURSIVE RSumSet(_)
RSumSet(S) ==
    IF S = {} THEN Zero
    ELSE LET x == CHOOSE y \in S : TRUE IN RAdd(x[2], RSumSet(S \ {x}))

Distribution(row, T) == SoftmaxRow([k \in 1..Len(row) |-> Rat(row[k], T)])

\* The sum over the unmasked positions of KL(tokens view || origin view).
UnmaskedKL(ext, origin, mask, T) ==
    RSumSet({<<pos, KLRow(Distribution(ext[pos[1]][pos[2]], T),
                          Distribution(origin[pos[1]][pos[2]], T))>> :
             pos \in {q \in (1..Len(mask)) \X (1..SeqLen) : mask[q[1]][q[2]] = 1}})

\* C7: with multiview and mv_loss_type 'kl', _calculate_cl_loss returns
\* T * T / batch_size times the sum, over the positions whose mask is 1, of
\* the KL divergence of the tokens view's label distribution (the target, cut
\* from the graph) from the origin view's (the input); masked positions add
\* nothing, equal logits at the unmasked positions give 0, and without
\* multiview the result is 0.0.
C7_ConsistencyLoss ==
    (call.op = "_calculate_cl_loss") =>
        LET a == call.args
            ext == a.ext_view_logits.data
            origin == a.origin_view_logits.data
        IN /\ ~self.multiview => (Returned /\ result.value = LConst(Zero))
           /\ (self.multiview /\ self.mv_loss_type = "kl") =>
                /\ Returned
                /\ result.value =
                       LConst(RDiv(RMul(RInt(a.T * a.T),
                                        UnmaskedKL(ext, origin, a.mask, a.T)),
                                   RInt(Len(ext))))
                /\ ~result.grad.ext
                /\ result.grad.origin
                /\ (\A b \in 1..Len(ext) : \A i \in 1..SeqLen :
                        a.mask[b][i] = 1 => ext[b][i] = origin[b][i])
                       => result.value = LConst(Zero)

C7_Witness ==
    /\ call.op = "_calculate_cl_loss"
    /\ self.multiview /\ self.mv_loss_type = "kl"
    /\ call.args.T = 2
    /\ Len(call.args.mask) = 2
    /\ \E b \in 1..2 : \E i \in 1..SeqLen :
           /\ call.args.mask[b][i] = 0
           /\ call.args.ext_view_logits.data[b][i] # call.args.origin_view_logits.data[b][i]
    /\ result.value # LConst(Zero)

\* C8 as stated: a training-mode multiview forward call with origin_tokens,
\* mv_loss_type 'crf_kl' and no CRF raises NotImplementedError.
C8_Original ==
    (MultiviewTraining /\ self.mv_loss_type = "crf_kl" /\ ~self.use_crf) =>
        result.raised = "NotImplementedError"

\* C8, amended: such a call raises NotImplementedError when label_ids is
\* supplied; a direct _calculate_cl_loss call on a multiview model raises it
\* for every mv_loss_type but 'kl' and 'crf_kl', and for 'crf_kl' without a
\* CRF; with 'crf_kl' and a CRF nothing is raised and the loss comes from the
\* CRF posteriors of both views.
C8_NotImplemented ==
    /\ (MultiviewTraining /\ self.mv_loss_type = "crf_kl" /\ ~self.use_crf
            /\ call.args.label_ids # None) =>
           result.raised = "NotImplementedError"
    /\ (call.op = "_calculate_cl_loss" /\ self.multiview
            /\ self.mv_loss_type \notin {"kl", "crf_kl"}) =>
           result.raised = "NotImplementedError"
    /\ (call.op = "_calculate_cl_loss" /\ self.multiview
            /\ self.mv_loss_type = "crf_kl" /\ ~self.use_crf) =>
           result.raised = "NotImplementedError"
    /\ (call.op = "_calculate_cl_loss" /\ self.multiview
            /\ self.mv_loss_type = "crf_kl" /\ self.use_crf) =>
           /\ Returned
           /\ Len(PosteriorEvents) = 2
           /\ PosteriorEvents[1].args[2] = call.args.origin_view_logits.data
           /\ PosteriorEvents[2].args[2] = call.args.ext_view_logits.data
    /\ (MultiviewTraining /\ self.mv_loss_type = "crf_kl" /\ self.use_crf
            /\ call.args.label_ids # None) =>
           /\ Returned
           /\ Len(PosteriorEvents) = 2
           /\ PosteriorEvents[1].args[2] = OriginLogits
           /\ PosteriorEvents[2].args[2] = ViewLogits

C8_Witness ==
    /\ MultiviewTraining
    /\ self.mv_loss_type = "crf_kl" /\ ~self.use_crf
    /\ call.args.label_ids # None
    /\ result.raised = "NotImplementedError"

\* C9: in training the targets a CRF receives are label_ids * mask: 0 where
\* the mask is 0, the original label where it is 1; label_ids itself reaches
\* every _calculate_loss call unmodified; without a CRF the cross-entropy
\* receives label_ids unchanged and the loss does not depend on the mask.
C9_MaskedTargets ==
    (ForwardCall /\ self.training) =>
        \A j \in 1..Len(result.trace) :
            LET e == result.trace[j]
            IN /\ e.op = "_calculate_loss" => e.args[2] = call.args.label_ids
               /\ e.op = "crf" =>
                    LET t == e.args[3]
                        m == e.args[5]
                        labels == Val(call.args.label_ids)
                    IN /\ m = result.trace[j - 1].args[3]
                       /\ \A b \in 1..Len(t) : \A i \in 1..SeqLen :
                            /\ m[b][i] = 0 => t[b][i] = 0
                            /\ m[b][i] = 1 => t[b][i] = labels[b][i]
               /\ e.op = "loss_fn" =>
                    LET logits == result.trace[j - 1].args[1]
                    IN /\ e.args[3] = call.args.label_ids
                       /\ e.args[2] = Transpose12(logits)
                       /\ \A m \in {ZerosMask(Len(logits)), AllOnesMask(Len(logits))} :
                            _calculate_loss(self, logits, call.args.label_ids, m).value
                                = _calculate_loss(self, logits, call.args.label_ids,
                                                  result.trace[j - 1].args[3]).value

C9_Witness ==
    /\ MultiviewTraining /\ Returned
    /\ self.use_crf
    /\ Len(CrfEvents) = 2
    /\ \E b \in 1..Len(TokensMask) : \E i \in 1..SeqLen :
           /\ CrfEvents[1].args[5][b][i] = 0
           /\ Val(call.args.label_ids)[b][i] = PAD_LABEL_ID
           /\ CrfEvents[1].args[3][b][i] = 0

\* The optional arguments a forward call on a batch of n sentences may get.
LabelChoices(n) == {None} \cup {Some(LabelIds(b)) : b \in {c \in Batches : Len(c) = n}}
OriginChoices(n) == {None} \cup {Some(OriginView(b)) : b \in {c \in Batches : Len(c) = n}}
MaskChoices(n) == {None, Some(AllOnesMask(n)), Some(ZerosMask(n))}

\* C10: in training the tokens view's primary loss gets origin_mask when it
\* is supplied and otherwise the mask of tokens, the origin view's primary
\* loss the mask of origin_tokens, the consistency loss the mask of tokens; a
\* CRF receives the mask its _calculate_loss call got.  In inference
\* label_ids, origin_tokens and origin_mask do not change the output.
C10_MaskSelection ==
    ForwardCall =>
        LET a == call.args
            n == Len(a.tokens.input_ids)
        IN /\ self.training =>
                /\ Len(LossEvents) >= 1
                /\ LossEvents[1].args[3] =
                       (IF a.origin_mask = None THEN TokensMask ELSE Val(a.origin_mask))
                /\ Len(LossEvents) >= 2 => LossEvents[2].args[3] = OriginTokensMask
                /\ \A j \in 1..Len(ClEvents) : ClEvents[j].args[3] = TokensMask
                /\ \A j \in 1..Len(CrfEvents) : CrfEvents[j].args[5] = LossEvents[j].args[3]
                /\ (MultiviewTraining /\ Returned) => Len(LossEvents) = 2
                /\ (MultiviewTraining /\ Returned
                        /\ self.mv_loss_type \in {"kl", "crf_kl"}) => Len(ClEvents) = 1
           /\ ~self.training =>
                /\ Returned
                /\ \A l \in LabelChoices(n), o \in OriginChoices(n), m \in MaskChoices(n) :
                       forward(self, a.tokens, l, o, m, a.seeds).value = result.value

C10_Witness ==
    /\ MultiviewTraining /\ Returned
    /\ self.mv_loss_type = "kl"
    /\ self.use_crf
    /\ call.args.origin_mask # None
    /\ Val(call.args.origin_mask) # TokensMask
    /\ Val(call.args.origin_mask) # OriginTokensMask
    /\ TokensMask # OriginTokensMask
    /\ CrfEvents[1].args[5] = Val(call.args.origin_mask)
    /\ CrfEvents[2].args[5] = OriginTokensMask
    /\ ClEvents[1].args[3] = TokensMask
====
